---- MODULE Spec2Model ----
(***************************************************************************)
(* Model of the encoder/decoder panel of the extension popup               *)
(* (src/ninja-extension/src/popup/pages/encoderDecoderPanel.tsx).          *)
(*                                                                         *)
(* A JavaScript string is a sequence of UTF-16 code units (naturals below  *)
(* 65536); a Uint8Array is a sequence of naturals below 256.  A call that  *)
(* may throw returns a record [ok, val, err]: ok = FALSE stands for the     *)
(* thrown exception, which err names.                                      *)
(***************************************************************************)
EXTENDS Integers, Sequences, FiniteSets, TLC

(***************************************************************************)
(* Character classes (code units).                                         *)
(***************************************************************************)
IsDigit(c) == c >= 48 /\ c <= 57
IsAlpha(c) == (c >= 65 /\ c <= 90) \/ (c >= 97 /\ c <= 122)
IsHexDigit(c) == IsDigit(c) \/ (c >= 65 /\ c <= 70) \/ (c >= 97 /\ c <= 102)

\* Value of a hex digit (parseInt(h, 16) on one digit).
HexVal(c) == IF IsDigit(c) THEN c - 48 ELSE IF c >= 97 THEN c - 87 ELSE c - 55

\* Upper-case hex digit (encodeURIComponent writes %XX in upper case).
HexDigitUpper(v) == IF v < 10 THEN 48 + v ELSE 55 + v

\* The regular-expression class \s, which is also what String.prototype.trim
\* removes: WhiteSpace and LineTerminator of ECMAScript.
IsJsWhite(c) ==
    \/ c \in {9, 10, 11, 12, 13, 32, 160, 5760, 8232, 8233, 8239, 8287, 12288, 65279}
    \/ (c >= 8192 /\ c <= 8202)

(***************************************************************************)
(* Sequence helpers.                                                       *)
(***************************************************************************)
\* err names the exception: String(e) of the handlers starts with it.
Ok(v) == [ok |-> TRUE, val |-> v, err |-> ""]
Thrown(e) == [ok |-> FALSE, val |-> << >>, err |-> e]

RECURSIVE Flatten(_)
Flatten(ss) == IF ss = << >> THEN << >> ELSE Head(ss) \o Flatten(Tail(ss))

\* Array.prototype.join(" ")
RECURSIVE JoinSpace(_)
JoinSpace(ss) ==
    IF ss = << >> THEN << >>
    ELSE IF Len(ss) = 1 THEN ss[1]
    ELSE ss[1] \o <<32>> \o JoinSpace(Tail(ss))

\* s.replace(/\s+/g, "")
StripWhite(s) == SelectSeq(s, LAMBDA c : ~IsJsWhite(c))

\* String.prototype.trim
RECURSIVE TrimLeft(_)
TrimLeft(s) == IF s # << >> /\ IsJsWhite(s[1]) THEN TrimLeft(Tail(s)) ELSE s
RECURSIVE TrimRight(_)
TrimRight(s) ==
    IF s # << >> /\ IsJsWhite(s[Len(s)]) THEN TrimRight(SubSeq(s, 1, Len(s) - 1)) ELSE s
Trim(s) == TrimRight(TrimLeft(s))

\* s.split(/\s+/) on a trimmed string: the maximal runs of non-whitespace;
\* the empty string splits into one empty token.
RECURSIVE SplitRuns(_, _)
SplitRuns(s, cur) ==
    IF s = << >> THEN <<cur>>
    ELSE IF IsJsWhite(s[1])
         THEN <<cur>> \o SplitRuns(TrimLeft(s), << >>)
         ELSE SplitRuns(Tail(s), Append(cur, s[1]))
SplitWhite(s) == SplitRuns(s, << >>)

(***************************************************************************)
(* Array.from(s): the code points of s, a lone surrogate being kept as an  *)
(* element of its own.                                                     *)
(***************************************************************************)
RECURSIVE CodePoints(_)
CodePoints(s) ==
    IF s = << >> THEN << >>
    ELSE IF Len(s) >= 2 /\ s[1] \in 55296..56319 /\ s[2] \in 56320..57343
         THEN <<65536 + (s[1] - 55296) * 1024 + (s[2] - 56320)>>
                  \o CodePoints(SubSeq(s, 3, Len(s)))
         ELSE <<s[1]>> \o CodePoints(Tail(s))

\* The UTF-16 code units of one code point (String.fromCodePoint).
UnitsOf(cp) ==
    IF cp < 65536 THEN <<cp>>
    ELSE <<55296 + ((cp - 65536) \div 1024), 56320 + ((cp - 65536) % 1024)>>

\* String.fromCharCode(n): ToUint16 of the argument.
FromCharCode(n) == <<n % 65536>>

HasLoneSurrogate(s) ==
    \E i \in 1..Len(CodePoints(s)) :
        LET cp == CodePoints(s)[i] IN cp >= 55296 /\ cp <= 57343

(***************************************************************************)
(* TextEncoder.encode: UTF-8 of the string, a lone surrogate being         *)
(* replaced by U+FFFD.                                                     *)
(***************************************************************************)
Utf8OfCodePoint(cp0) ==
    LET cp == IF cp0 >= 55296 /\ cp0 <= 57343 THEN 65533 ELSE cp0 IN
    IF cp < 128 THEN <<cp>>
    ELSE IF cp < 2048 THEN <<192 + (cp \div 64), 128 + (cp % 64)>>
    ELSE IF cp < 65536
         THEN <<224 + (cp \div 4096), 128 + ((cp \div 64) % 64), 128 + (cp % 64)>>
         ELSE <<240 + (cp \div 262144), 128 + ((cp \div 4096) % 64),
                128 + ((cp \div 64) % 64), 128 + (cp % 64)>>

enc(s) ==
    LET cps == CodePoints(s) IN
    Flatten([i \in 1..Len(cps) |-> Utf8OfCodePoint(cps[i])])

(***************************************************************************)
(* TextDecoder.decode, as constructed at line 48: UTF-8, not fatal, BOM    *)
(* not ignored.  The decoder of the Encoding standard: an ill-formed       *)
(* sequence yields U+FFFD and the byte that ended it is read again; a      *)
(* leading byte order mark is dropped.                                     *)
(***************************************************************************)
\* Number of continuation bytes a lead byte asks for; -1 for a byte that can
\* start nothing.
Utf8Needed(b) ==
    IF b <= 127 THEN 0
    ELSE IF b >= 194 /\ b <= 223 THEN 1
    ELSE IF b >= 224 /\ b <= 239 THEN 2
    ELSE IF b >= 240 /\ b <= 244 THEN 3
    ELSE -1

\* How many continuation bytes, of the `need` wanted after position i, are
\* acceptable in a row.
RECURSIVE Utf8Good(_, _, _, _)
Utf8Good(u8, i, need, k) ==
    IF k = need \/ i + k + 1 > Len(u8) THEN k
    ELSE LET c == u8[i + k + 1]
             lo == IF k = 0 /\ u8[i] = 224 THEN 160
                   ELSE IF k = 0 /\ u8[i] = 240 THEN 144 ELSE 128
             hi == IF k = 0 /\ u8[i] = 237 THEN 159
                   ELSE IF k = 0 /\ u8[i] = 244 THEN 143 ELSE 191
         IN IF c >= lo /\ c <= hi THEN Utf8Good(u8, i, need, k + 1) ELSE k

\* Code point assembled from the lead byte at i and its `need` continuations.
Utf8Assemble(u8, i, need) ==
    CASE need = 0 -> u8[i]
      [] need = 1 -> (u8[i] - 192) * 64 + (u8[i + 1] - 128)
      [] need = 2 -> (u8[i] - 224) * 4096 + (u8[i + 1] - 128) * 64 + (u8[i + 2] - 128)
      [] need = 3 -> (u8[i] - 240) * 262144 + (u8[i + 1] - 128) * 4096
                         + (u8[i + 2] - 128) * 64 + (u8[i + 3] - 128)

\* The code points decoded from position i on; -1 stands for a decoding error
\* (emitted as U+FFFD by a decoder that is not fatal).
RECURSIVE Utf8Scan(_, _)
Utf8Scan(u8, i) ==
    IF i > Len(u8) THEN << >>
    ELSE LET need == Utf8Needed(u8[i]) IN
         IF need < 0 THEN <<-1>> \o Utf8Scan(u8, i + 1)
         ELSE LET good == Utf8Good(u8, i, need, 0) IN
              IF good = need
              THEN <<Utf8Assemble(u8, i, need)>> \o Utf8Scan(u8, i + need + 1)
              ELSE <<-1>> \o Utf8Scan(u8, i + good + 1)

Utf8WellFormed(u8) == \A k \in 1..Len(Utf8Scan(u8, 1)) : Utf8Scan(u8, 1)[k] # -1

dec(u8) ==
    LET cps == Utf8Scan(u8, 1)
        body == IF cps # << >> /\ cps[1] = 65279 THEN Tail(cps) ELSE cps
    IN Flatten([k \in 1..Len(body) |->
                    IF body[k] = -1 THEN <<65533>> ELSE UnitsOf(body[k])])

(***************************************************************************)
(* Number formatting and parsing.                                          *)
(***************************************************************************)
\* Number.prototype.toString(radix) of a natural number.
RECURSIVE ToRadix(_, _)
ToRadix(n, r) ==
    IF n < r THEN <<IF n < 10 THEN 48 + n ELSE 87 + n>>
    ELSE Append(ToRadix(n \div r, r), IF (n % r) < 10 THEN 48 + (n % r) ELSE 87 + (n % r))

\* String.prototype.padStart(width, "0")
RECURSIVE PadStart(_, _)
PadStart(s, width) == IF Len(s) >= width THEN s ELSE PadStart(<<48>> \o s, width)

\* Value of a string of digits of the radix (the digits are already checked).
RECURSIVE DigitsValue(_, _)
DigitsValue(s, r) ==
    IF s = << >> THEN 0
    ELSE DigitsValue(SubSeq(s, 1, Len(s) - 1), r) * r + HexVal(s[Len(s)])

\* Longest prefix of s made of hex digits.
RECURSIVE HexPrefix(_)
HexPrefix(s) ==
    IF s # << >> /\ IsHexDigit(s[1]) THEN <<s[1]>> \o HexPrefix(Tail(s)) ELSE << >>

\* ToUint16 of the Number that a non-empty run d of hex digits denotes: the
\* run's value is rounded to 53 significant bits, ties to even, before its
\* low 16 bits are taken.  (A run of more than 255 digits, whose value is
\* Infinity, is beyond the inputs considered.)
Uint16OfHexRun(d) ==
    LET z == Len(d)
        lead == CHOOSE k \in 1..(z + 1) :
                    /\ \A j \in 1..(k - 1) : d[j] = 48
                    /\ k = z + 1 \/ d[k] # 48
        e == SubSeq(d, lead, z)
        top == IF e = << >> THEN 0 ELSE HexVal(e[1])
        bits == IF e = << >> THEN 0
                ELSE 4 * (Len(e) - 1)
                     + (IF top >= 8 THEN 4 ELSE IF top >= 4 THEN 3
                        ELSE IF top >= 2 THEN 2 ELSE 1)
        low == IF Len(e) <= 4 THEN DigitsValue(e, 16)
               ELSE DigitsValue(SubSeq(e, Len(e) - 3, Len(e)), 16)
        shift == bits - 53
        r == low % (2 ^ shift)
        up == \/ 2 * r > 2 ^ shift
              \/ 2 * r = 2 ^ shift /\ (low \div (2 ^ shift)) % 2 = 1
    IN IF shift <= 0 THEN low
       ELSE IF shift >= 16 THEN 0
       ELSE (low - r + (IF up THEN 2 ^ shift ELSE 0)) % 65536

\* parseInt(h, 16), as the code unit String.fromCharCode makes of it:
\* leading white space skipped, an optional sign, an optional 0x, then the
\* longest run of hex digits; NaN when that run is empty.
ParseInt16(h) ==
    LET a == TrimLeft(h)
        neg == a # << >> /\ a[1] = 45
        b == IF a # << >> /\ (a[1] = 45 \/ a[1] = 43) THEN Tail(a) ELSE a
        c == IF Len(b) >= 2 /\ b[1] = 48 /\ (b[2] = 120 \/ b[2] = 88)
             THEN SubSeq(b, 3, Len(b)) ELSE b
        d == HexPrefix(c)
    IN IF d = << >> THEN [nan |-> TRUE, val |-> 0]
       ELSE [nan |-> FALSE,
             val |-> IF neg THEN (65536 - Uint16OfHexRun(d)) % 65536
                     ELSE Uint16OfHexRun(d)]

(***************************************************************************)
(* Base64: btoa / atob of the platform, and the helpers of lines 56-73.    *)
(***************************************************************************)
B64Index(c) ==
    IF c >= 65 /\ c <= 90 THEN c - 65
    ELSE IF c >= 97 /\ c <= 122 THEN c - 71
    ELSE IF IsDigit(c) THEN c + 4
    ELSE IF c = 43 THEN 62
    ELSE IF c = 47 THEN 63
    ELSE -1

B64Char(v) ==
    IF v < 26 THEN v + 65
    ELSE IF v < 52 THEN v + 71
    ELSE IF v < 62 THEN v - 4
    ELSE IF v = 62 THEN 43 ELSE 47

\* btoa of a binary string whose characters are all below 256.
btoa(bin) ==
    LET n == Len(bin)
        B(k) == IF k <= n THEN bin[k] ELSE 0
    IN [i \in 1..(4 * ((n + 2) \div 3)) |->
          LET g == (i - 1) \div 4
              k == (i - 1) % 4
              b1 == B(3 * g + 1)
              b2 == B(3 * g + 2)
              b3 == B(3 * g + 3)
          IN CASE k = 0 -> B64Char(b1 \div 4)
               [] k = 1 -> B64Char((b1 % 4) * 16 + b2 \div 16)
               [] k = 2 -> IF 3 * g + 2 > n THEN 61
                           ELSE B64Char((b2 % 16) * 4 + b3 \div 64)
               [] k = 3 -> IF 3 * g + 3 > n THEN 61 ELSE B64Char(b3 % 64)]

\* atob: the forgiving-base64 decode of the HTML standard.  ASCII white
\* space is removed; one or two trailing "=" are removed when the length is
\* a multiple of 4; a length of 1 modulo 4 or a character outside the
\* alphabet throws InvalidCharacterError.
atob(data) ==
    LET a == SelectSeq(data, LAMBDA c : c \notin {9, 10, 12, 13, 32})
        n == Len(a)
        b == IF n > 0 /\ n % 4 = 0 /\ a[n] = 61
             THEN IF a[n - 1] = 61 THEN SubSeq(a, 1, n - 2) ELSE SubSeq(a, 1, n - 1)
             ELSE a
        m == Len(b)
        v(k) == B64Index(b[k])
    IN IF m % 4 = 1 \/ \E k \in 1..m : B64Index(b[k]) < 0
       THEN Thrown("InvalidCharacterError")
       ELSE Ok([j \in 1..((m * 6) \div 8) |->
                  LET g == (j - 1) \div 3
                      k == (j - 1) % 3
                  IN CASE k = 0 -> v(4 * g + 1) * 4 + v(4 * g + 2) \div 16
                       [] k = 1 -> (v(4 * g + 2) % 16) * 16 + v(4 * g + 3) \div 4
                       [] k = 2 -> (v(4 * g + 3) % 4) * 64 + v(4 * g + 4)])

toBase64(u8) == btoa(u8)

fromBase64(b64) == atob(StripWhite(b64))

\* .replace(/=+$/, "")
RECURSIVE StripPad(_)
StripPad(s) == IF s # << >> /\ s[Len(s)] = 61 THEN StripPad(SubSeq(s, 1, Len(s) - 1)) ELSE s

\* toBase64Url without the removal of the padding.
toBase64UrlKeepPad(b64) ==
    [i \in 1..Len(b64) |->
        IF b64[i] = 43 THEN 45 ELSE IF b64[i] = 47 THEN 95 ELSE b64[i]]

toBase64Url(b64) ==
    StripPad([i \in 1..Len(b64) |->
                 IF b64[i] = 43 THEN 45 ELSE IF b64[i] = 47 THEN 95 ELSE b64[i]])

RECURSIVE PadTo4(_)
PadTo4(s) == IF Len(s) % 4 # 0 THEN PadTo4(Append(s, 61)) ELSE s

fromBase64Url(b64url) ==
    fromBase64(PadTo4([i \in 1..Len(b64url) |->
                          IF b64url[i] = 45 THEN 43
                          ELSE IF b64url[i] = 95 THEN 47 ELSE b64url[i]]))

(***************************************************************************)
(* Hex, ASCII hex, binary, octal (lines 100-135).                          *)
(***************************************************************************)
hexEncode(s) ==
    LET u8 == enc(s) IN
    Flatten([i \in 1..Len(u8) |-> PadStart(ToRadix(u8[i], 16), 2)])

\* hexDecodeToU8 without the test of the length.
hexDecodeAnyLength(hex) ==
    LET clean == StripWhite(hex) IN
    IF \E i \in 1..Len(clean) : ~IsHexDigit(clean[i])
    THEN Thrown("Error: invalid hex")
    ELSE Ok([i \in 1..(Len(clean) \div 2) |->
                DigitsValue(SubSeq(clean, 2 * i - 1, 2 * i), 16)])

hexDecodeToU8(hex) ==
    LET clean == StripWhite(hex) IN
    IF (\E i \in 1..Len(clean) : ~IsHexDigit(clean[i])) \/ Len(clean) % 2 # 0
    THEN Thrown("Error: invalid hex")
    ELSE Ok([i \in 1..(Len(clean) \div 2) |->
                DigitsValue(SubSeq(clean, 2 * i - 1, 2 * i), 16)])

asciiHexEncode(s) ==
    LET chs == CodePoints(s) IN
    JoinSpace([i \in 1..Len(chs) |-> PadStart(ToRadix(UnitsOf(chs[i])[1], 16), 2)])

asciiHexDecode(hex) ==
    LET parts == SplitWhite(Trim(hex)) IN
    Ok(Flatten([i \in 1..Len(parts) |->
           IF ParseInt16(parts[i]).nan THEN <<0>>
           ELSE FromCharCode(ParseInt16(parts[i]).val)]))

binaryEncode(s) ==
    LET u8 == enc(s) IN
    JoinSpace([i \in 1..Len(u8) |-> PadStart(ToRadix(u8[i], 2), 8)])

\* binaryDecodeU8 with tokens of any length from 1 to 8.
binaryDecodeLoose(bin) ==
    LET parts == SplitWhite(Trim(bin)) IN
    IF \E i \in 1..Len(parts) :
           \/ Len(parts[i]) \notin 1..8
           \/ \E k \in 1..Len(parts[i]) : parts[i][k] \notin {48, 49}
    THEN Thrown("Error: invalid binary")
    ELSE Ok([i \in 1..Len(parts) |-> DigitsValue(parts[i], 2) % 256])

binaryDecodeU8(bin) ==
    LET parts == SplitWhite(Trim(bin)) IN
    IF \E i \in 1..Len(parts) :
           Len(parts[i]) # 8 \/ \E k \in 1..Len(parts[i]) : parts[i][k] \notin {48, 49}
    THEN Thrown("Error: invalid binary")
    ELSE Ok([i \in 1..Len(parts) |-> DigitsValue(parts[i], 2) % 256])

octalEncode(s) ==
    LET u8 == enc(s) IN
    JoinSpace([i \in 1..Len(u8) |-> PadStart(ToRadix(u8[i], 8), 3)])

\* A Uint8Array element stores the value modulo 256.
octalDecodeU8(oct) ==
    LET parts == SplitWhite(Trim(oct)) IN
    IF \E i \in 1..Len(parts) :
           Len(parts[i]) \notin 1..3 \/ \E k \in 1..Len(parts[i]) : parts[i][k] \notin 48..55
    THEN Thrown("Error: invalid octal")
    ELSE Ok([i \in 1..Len(parts) |-> DigitsValue(parts[i], 8) % 256])

(***************************************************************************)
(* ROT13 (lines 137-141).                                                  *)
(***************************************************************************)
\* rot13 without the wrap-around at the end of the alphabet.
rot13NoWrap(s) == [i \in 1..Len(s) |-> IF IsAlpha(s[i]) THEN s[i] + 13 ELSE s[i]]

rot13(s) ==
    [i \in 1..Len(s) |->
        IF IsAlpha(s[i])
        THEN LET base == IF s[i] <= 90 THEN 65 ELSE 97
             IN ((s[i] - base + 13) % 26) + base
        ELSE s[i]]

(***************************************************************************)
(* URL codecs (lines 84-98).                                               *)
(***************************************************************************)
\* Characters encodeURIComponent leaves alone: A-Z a-z 0-9 - _ . ! ~ * ' ( )
IsUriUnreserved(c) ==
    IsAlpha(c) \/ IsDigit(c) \/ c \in {45, 95, 46, 33, 126, 42, 39, 40, 41}

\* encodeURIComponent: URIError on a lone surrogate; otherwise each code
\* point outside the unreserved set becomes the %XX of its UTF-8 bytes.
encodeURIComponent(s) ==
    IF HasLoneSurrogate(s) THEN Thrown("URIError")
    ELSE LET cps == CodePoints(s) IN
         Ok(Flatten([i \in 1..Len(cps) |->
                IF cps[i] < 128 /\ IsUriUnreserved(cps[i]) THEN <<cps[i]>>
                ELSE LET u8 == Utf8OfCodePoint(cps[i]) IN
                     Flatten([k \in 1..Len(u8) |->
                         <<37, HexDigitUpper(u8[k] \div 16), HexDigitUpper(u8[k] % 16)>>])]))

\* "%XX" with two hex digits at position i.
IsPercentAt(s, i) ==
    i + 2 <= Len(s) /\ s[i] = 37 /\ IsHexDigit(s[i + 1]) /\ IsHexDigit(s[i + 2])

PercentValue(s, i) == HexVal(s[i + 1]) * 16 + HexVal(s[i + 2])

\* Number of octets of the UTF-8 sequence a lead octet announces (its
\* leading one bits); 0 when it announces none that Decode accepts.
UriOctets(b) ==
    IF b >= 192 /\ b <= 223 THEN 2
    ELSE IF b >= 224 /\ b <= 239 THEN 3
    ELSE IF b >= 240 /\ b <= 247 THEN 4
    ELSE 0

\* decodeURIComponent (Decode of ECMAScript with an empty reserved set):
\* returns the decoded code units from position i on, or <<-1>> appended
\* when a URIError is thrown.
RECURSIVE UriDecodeFrom(_, _)
UriDecodeFrom(s, i) ==
    IF i > Len(s) THEN << >>
    ELSE IF s[i] # 37 THEN <<s[i]>> \o UriDecodeFrom(s, i + 1)
    ELSE IF ~IsPercentAt(s, i) THEN <<-1>>
    ELSE LET b == PercentValue(s, i) IN
         IF b < 128 THEN <<b>> \o UriDecodeFrom(s, i + 3)
         ELSE LET n == UriOctets(b) IN
              IF n = 0 \/ i + 3 * n - 1 > Len(s) THEN <<-1>>
              ELSE IF \E k \in 1..(n - 1) : ~IsPercentAt(s, i + 3 * k) THEN <<-1>>
              ELSE LET octets == [k \in 1..n |-> PercentValue(s, i + 3 * (k - 1))] IN
                   IF ~Utf8WellFormed(octets) \/ Len(Utf8Scan(octets, 1)) # 1
                   THEN <<-1>>
                   ELSE UnitsOf(Utf8Scan(octets, 1)[1]) \o UriDecodeFrom(s, i + 3 * n)

decodeURIComponent(s) ==
    LET r == UriDecodeFrom(s, 1) IN
    IF \E k \in 1..Len(r) : r[k] = -1 THEN Thrown("URIError") ELSE Ok(r)

urlEncode(s) == encodeURIComponent(s)
urlDecode(s) == decodeURIComponent(s)

urlUEncode(s) ==
    LET cps == CodePoints(s) IN
    Flatten([i \in 1..Len(cps) |->
        IF cps[i] < 128 THEN <<37>> \o PadStart(ToRadix(cps[i], 16), 2)
        ELSE <<37, 117>> \o PadStart(ToRadix(cps[i], 16), 4)])

\* "%uXXXX" with four hex digits at position i.
IsPercentUAt(s, i) ==
    /\ i + 5 <= Len(s)
    /\ s[i] = 37
    /\ s[i + 1] = 117
    /\ \A k \in 2..5 : IsHexDigit(s[i + k])

\* s.replace(/%u([0-9a-fA-F]{4})/g, ...): one left-to-right pass.
RECURSIVE ReplacePercentU(_, _)
ReplacePercentU(s, i) ==
    IF i > Len(s) THEN << >>
    ELSE IF IsPercentUAt(s, i)
         THEN FromCharCode(DigitsValue(SubSeq(s, i + 2, i + 5), 16))
                  \o ReplacePercentU(s, i + 6)
         ELSE <<s[i]>> \o ReplacePercentU(s, i + 1)

\* s.replace(/%([0-9a-fA-F]{2})/g, ...): one left-to-right pass.
RECURSIVE ReplacePercent(_, _)
ReplacePercent(s, i) ==
    IF i > Len(s) THEN << >>
    ELSE IF IsPercentAt(s, i)
         THEN FromCharCode(PercentValue(s, i)) \o ReplacePercent(s, i + 3)
         ELSE <<s[i]>> \o ReplacePercent(s, i + 1)

\* The second replace runs over the result of the first.
urlUDecode(s) == ReplacePercent(ReplacePercentU(s, 1), 1)

\* .replace(/%20/g, "+")
RECURSIVE ReplacePercent20(_, _)
ReplacePercent20(s, i) ==
    IF i > Len(s) THEN << >>
    ELSE IF i + 2 <= Len(s) /\ s[i] = 37 /\ s[i + 1] = 50 /\ s[i + 2] = 48
         THEN <<43>> \o ReplacePercent20(s, i + 3)
         ELSE <<s[i]>> \o ReplacePercent20(s, i + 1)

formUrlEncode(s) ==
    LET e == urlEncode(s) IN
    IF e.ok THEN Ok(ReplacePercent20(e.val, 1)) ELSE e

formUrlDecode(s) == urlDecode([i \in 1..Len(s) |-> IF s[i] = 43 THEN 32 ELSE s[i]])

jsEscape(s) == urlUEncode(s)
jsUnescape(s) == urlUDecode(s)

(***************************************************************************)
(* HTML (lines 75-82).                                                     *)
(***************************************************************************)
\* The five replacements of htmlEncode, "&" first; as each replacement text
\* contains none of the characters replaced after it except inside an
\* entity already written, one pass per character gives the same string.
htmlEncode(s) ==
    Flatten([i \in 1..Len(s) |->
        CASE s[i] = 38 -> <<38, 97, 109, 112, 59>>
          [] s[i] = 60 -> <<38, 108, 116, 59>>
          [] s[i] = 62 -> <<38, 103, 116, 59>>
          [] s[i] = 34 -> <<38, 113, 117, 111, 116, 59>>
          [] s[i] = 39 -> <<38, 35, 51, 57, 59>>
          [] OTHER -> <<s[i]>>])

\* Named character references the model knows, with the character each
\* stands for: amp lt gt quot apos (the rest of the table of the HTML
\* standard is outside the inputs of the model).
NamedEntities ==
    << [name |-> <<97, 109, 112>>, ch |-> 38],
       [name |-> <<108, 116>>, ch |-> 60],
       [name |-> <<103, 116>>, ch |-> 62],
       [name |-> <<113, 117, 111, 116>>, ch |-> 34],
       [name |-> <<97, 112, 111, 115>>, ch |-> 39] >>

\* Length of the run of hex digits (of decimal digits) of s from position i.
RECURSIVE HexRun(_, _)
HexRun(s, i) == IF i <= Len(s) /\ IsHexDigit(s[i]) THEN 1 + HexRun(s, i + 1) ELSE 0
RECURSIVE DigitRun(_, _)
DigitRun(s, i) == IF i <= Len(s) /\ IsDigit(s[i]) THEN 1 + DigitRun(s, i + 1) ELSE 0

\* Character of a numeric character reference: U+FFFD for 0, for a
\* surrogate and for a value above U+10FFFF.
NumericRefUnits(v) ==
    IF v = 0 \/ v > 1114111 \/ (v >= 55296 /\ v <= 57343) THEN <<65533>> ELSE UnitsOf(v)

\* textarea.innerHTML = s; textarea.value: the text of s with its character
\* references resolved (RCDATA content: no markup is recognised).  Never
\* throws.
RECURSIVE HtmlText(_, _)
HtmlText(s, i) ==
    IF i > Len(s) THEN << >>
    ELSE IF s[i] = 0 THEN <<65533>> \o HtmlText(s, i + 1)
    ELSE IF s[i] = 13
         THEN <<10>> \o HtmlText(s, IF i < Len(s) /\ s[i + 1] = 10 THEN i + 2 ELSE i + 1)
    ELSE IF s[i] # 38 THEN <<s[i]>> \o HtmlText(s, i + 1)
    ELSE IF i + 2 <= Len(s) /\ s[i + 1] = 35 /\ (s[i + 2] = 120 \/ s[i + 2] = 88)
         THEN LET n == HexRun(s, i + 3) IN
              IF n = 0 THEN <<38>> \o HtmlText(s, i + 1)
              ELSE NumericRefUnits(DigitsValue(SubSeq(s, i + 3, i + 2 + n), 16))
                     \o HtmlText(s, IF i + 3 + n <= Len(s) /\ s[i + 3 + n] = 59
                                    THEN i + 4 + n ELSE i + 3 + n)
    ELSE IF i + 1 <= Len(s) /\ s[i + 1] = 35
         THEN LET n == DigitRun(s, i + 2) IN
              IF n = 0 THEN <<38>> \o HtmlText(s, i + 1)
              ELSE NumericRefUnits(DigitsValue(SubSeq(s, i + 2, i + 1 + n), 10))
                     \o HtmlText(s, IF i + 2 + n <= Len(s) /\ s[i + 2 + n] = 59
                                    THEN i + 3 + n ELSE i + 2 + n)
    ELSE LET hits == {k \in 1..Len(NamedEntities) :
                        LET nm == NamedEntities[k].name IN
                        /\ i + Len(nm) + 1 <= Len(s)
                        /\ SubSeq(s, i + 1, i + Len(nm)) = nm
                        /\ s[i + Len(nm) + 1] = 59}
         IN IF hits = {} THEN <<38>> \o HtmlText(s, i + 1)
            ELSE LET k == CHOOSE k \in hits : TRUE IN
                 <<NamedEntities[k].ch>> \o HtmlText(s, i + Len(NamedEntities[k].name) + 2)

htmlDecode(s) == HtmlText(s, 1)

(***************************************************************************)
(* Gzip (lines 148-161).  CompressionStream / DecompressionStream belong   *)
(* to the platform; the model keeps the framing the panel relies on: a     *)
(* stream opens with the magic bytes 1F 8B, carries the data, and closes   *)
(* with a trailer (here the data length modulo 256) that decompression     *)
(* verifies.  Decompressing anything else is an error.                     *)
(***************************************************************************)
GzipDecompress(u8) ==
    IF Len(u8) < 3 \/ u8[1] # 31 \/ u8[2] # 139 THEN Thrown("TypeError")
    ELSE LET data == SubSeq(u8, 3, Len(u8) - 1) IN
         IF u8[Len(u8)] # Len(data) % 256 THEN Thrown("TypeError") ELSE Ok(data)

\* The Blob of the bytes piped through DecompressionStream("gzip").
GzipStream(u8) == IF u8.ok THEN GzipDecompress(u8.val) ELSE u8

\* dec.decode(new Uint8Array(buf)) of the decompressed bytes.
Utf8Text(r) == IF r.ok THEN Ok(dec(r.val)) ELSE r

\* The value the promise of gzipCompressToBase64 is fulfilled with.
gzipCompressToBase64(text) ==
    toBase64(<<31, 139>> \o enc(text) \o <<Len(enc(text)) % 256>>)

\* The settlement of the promise of gzipDecompressFromBase64: rejected when
\* fromBase64 throws or the stream is not gzip.
gzipDecompressFromBase64(b64) == Utf8Text(GzipStream(fromBase64(b64)))


(***************************************************************************)
(* JSON.parse, as far as tryDecodeJwt needs it: whether the text is a JSON *)
(* text (RFC 8259 grammar).  Each operator takes the position to read at   *)
(* and gives the position after what it read, 0 for a SyntaxError.         *)
(***************************************************************************)
RECURSIVE JsonSkip(_, _)
JsonSkip(s, i) == IF i <= Len(s) /\ s[i] \in {9, 10, 13, 32} THEN JsonSkip(s, i + 1) ELSE i

\* After the opening quote at i - 1.
RECURSIVE JsonString(_, _)
JsonString(s, i) ==
    IF i > Len(s) THEN 0
    ELSE IF s[i] = 34 THEN i + 1
    ELSE IF s[i] < 32 THEN 0
    ELSE IF s[i] # 92 THEN JsonString(s, i + 1)
    ELSE IF i + 1 > Len(s) THEN 0
    ELSE IF s[i + 1] \in {34, 92, 47, 98, 102, 110, 114, 116} THEN JsonString(s, i + 2)
    ELSE IF s[i + 1] = 117 /\ i + 5 <= Len(s) /\ \A k \in 2..5 : IsHexDigit(s[i + k])
         THEN JsonString(s, i + 6)
    ELSE 0

\* -? (0 | [1-9][0-9]*) (. [0-9]+)? ([eE] [+-]? [0-9]+)?
\* Each part takes the position a the part before it ended at (0: failed).
JsonDigits(s, a) == IF a = 0 \/ DigitRun(s, a) = 0 THEN 0 ELSE a + DigitRun(s, a)

JsonInt(s, a) ==
    IF a > Len(s) \/ ~IsDigit(s[a]) THEN 0
    ELSE IF s[a] = 48 THEN a + 1 ELSE a + DigitRun(s, a)

JsonFrac(s, a) ==
    IF a = 0 THEN 0
    ELSE IF a <= Len(s) /\ s[a] = 46 THEN JsonDigits(s, a + 1)
    ELSE a

JsonExp(s, a) ==
    IF a = 0 THEN 0
    ELSE IF a <= Len(s) /\ (s[a] = 101 \/ s[a] = 69)
         THEN IF a + 1 <= Len(s) /\ (s[a + 1] = 43 \/ s[a + 1] = 45)
              THEN JsonDigits(s, a + 2) ELSE JsonDigits(s, a + 1)
         ELSE a

JsonNumber(s, i) == JsonExp(s, JsonFrac(s, JsonInt(s, IF s[i] = 45 THEN i + 1 ELSE i)))

\* true, false, null
JsonLiteral(s, i) ==
    LET Is(w) == i + Len(w) - 1 <= Len(s) /\ SubSeq(s, i, i + Len(w) - 1) = w IN
    IF Is(<<116, 114, 117, 101>>) THEN i + 4
    ELSE IF Is(<<102, 97, 108, 115, 101>>) THEN i + 5
    ELSE IF Is(<<110, 117, 108, 108>>) THEN i + 4
    ELSE 0

RECURSIVE JsonValue(_, _)
RECURSIVE JsonElements(_, _)
RECURSIVE JsonMembers(_, _)

\* The value that starts at i, a position that holds no white space.
JsonValueAt(s, i) ==
    IF i > Len(s) THEN 0
    ELSE IF s[i] = 123 THEN JsonMembers(s, JsonSkip(s, i + 1))
    ELSE IF s[i] = 91 THEN JsonElements(s, JsonSkip(s, i + 1))
    ELSE IF s[i] = 34 THEN JsonString(s, i + 1)
    ELSE IF s[i] = 45 \/ IsDigit(s[i]) THEN JsonNumber(s, i)
    ELSE JsonLiteral(s, i)

JsonValue(s, i) == JsonValueAt(s, JsonSkip(s, i))

\* 0 stays 0, any other position moves past white space.
JsonThen(s, v) == IF v = 0 THEN 0 ELSE JsonSkip(s, v)

\* After "[" and white space, at i:  ]  or  value (, value)* ]
\* (first: an empty array is allowed here, not after a comma).
RECURSIVE JsonElementsFrom(_, _)
JsonElementsFrom(s, v) ==
    IF v = 0 \/ v > Len(s) THEN 0
    ELSE IF s[v] = 93 THEN v + 1
    ELSE IF s[v] = 44 THEN JsonElementsFrom(s, JsonThen(s, JsonValue(s, v + 1)))
    ELSE 0

JsonElements(s, i) ==
    IF i <= Len(s) /\ s[i] = 93 THEN i + 1
    ELSE JsonElementsFrom(s, JsonThen(s, JsonValue(s, i)))

\* The position after  string : value  and white space, the string opening
\* at k; 0 when that is not what stands there.
JsonColon(s, c) == IF c = 0 \/ c > Len(s) \/ s[c] # 58 THEN 0 ELSE JsonThen(s, JsonValue(s, c + 1))

JsonMember(s, k) ==
    IF k > Len(s) \/ s[k] # 34 THEN 0
    ELSE JsonColon(s, JsonThen(s, JsonString(s, k + 1)))

RECURSIVE JsonMembersFrom(_, _)
JsonMembersFrom(s, v) ==
    IF v = 0 \/ v > Len(s) THEN 0
    ELSE IF s[v] = 125 THEN v + 1
    ELSE IF s[v] = 44 THEN JsonMembersFrom(s, JsonMember(s, JsonSkip(s, v + 1)))
    ELSE 0

\* After "{" and white space, at i:  }  or  member (, member)* }
JsonMembers(s, i) ==
    IF i <= Len(s) /\ s[i] = 125 THEN i + 1
    ELSE JsonMembersFrom(s, JsonMember(s, i))

\* JSON.parse(text) does not throw.
JsonParses(text) == JsonThen(text, JsonValue(text, 1)) = Len(text) + 1

(***************************************************************************)
(* What the output field holds.  kind "text": the string text.  kind       *)
(* "jwt": the dump JSON.stringify({header, payload}, null, 2), kept as the *)
(* JSON text of the header (text) and of the payload (aux) it was parsed   *)
(* from.  kind "msg": one of the fixed messages, named by msg.  kind       *)
(* "error": String(e) of a caught exception, named by msg.                 *)
(***************************************************************************)
Text(t) == [kind |-> "text", text |-> t, aux |-> << >>, msg |-> ""]
JwtDump(h, p) == [kind |-> "jwt", text |-> h, aux |-> p, msg |-> ""]
Message(m) == [kind |-> "msg", text |-> << >>, aux |-> << >>, msg |-> m]
ErrorText(e) == [kind |-> "error", text |-> << >>, aux |-> << >>, msg |-> e]

(***************************************************************************)
(* JWT (lines 164-174).                                                    *)
(***************************************************************************)
IsJwtChar(c) == IsAlpha(c) \/ IsDigit(c) \/ c = 45 \/ c = 95

\* Positions of the dots of s.
Dots(s) == {i \in 1..Len(s) : s[i] = 46}

\* The groups of /^([A-Za-z0-9\-_]+)\.([A-Za-z0-9\-_]+)\.([A-Za-z0-9\-_]+)?$/
\* for a string whose two dots are at d1 < d2.
JwtGroups(s, d1, d2) ==
    IF d1 = 1 \/ d2 = d1 + 1
    THEN [ok |-> FALSE, m1 |-> << >>, m2 |-> << >>]
    ELSE [ok |-> TRUE, m1 |-> SubSeq(s, 1, d1 - 1), m2 |-> SubSeq(s, d1 + 1, d2 - 1)]

\* s.match(...): ok = FALSE when s does not match.  Both dots are required;
\* the third group alone is optional.
JwtMatch(s) ==
    IF Cardinality(Dots(s)) # 2 \/ \E i \in 1..Len(s) : ~(IsJwtChar(s[i]) \/ s[i] = 46)
    THEN [ok |-> FALSE, m1 |-> << >>, m2 |-> << >>]
    ELSE JwtGroups(s, CHOOSE i \in Dots(s) : \A j \in Dots(s) : i <= j,
                      CHOOSE i \in Dots(s) : \A j \in Dots(s) : i >= j)

\* JSON.parse of the two decoded segments and the dump; ok = FALSE stands
\* for an exception in the try block.
JwtParsed(h, p) ==
    IF JsonParses(h) /\ JsonParses(p) THEN Ok(JwtDump(h, p)) ELSE Thrown("null")

JwtSegments(h, p) ==
    IF h.ok /\ p.ok THEN JwtParsed(dec(h.val), dec(p.val)) ELSE Thrown("null")

JwtOf(m) ==
    IF ~m.ok THEN Thrown("null")
    ELSE JwtSegments(fromBase64Url(m.m1), fromBase64Url(m.m2))

\* ok = FALSE stands for the null result.
tryDecodeJwt(s) == JwtOf(JwtMatch(s))

(***************************************************************************)
(* The codecs of the panel and the switch statements of encode (lines      *)
(* 224-239) and decode (lines 248-267): the value given to setOutput, or   *)
(* the exception that reaches the catch clause.  For gzip it is the        *)
(* settlement of the awaited promise.                                      *)
(***************************************************************************)
Methods ==
    {"url", "url_u", "formurl", "base64", "base64url", "html", "ascii_hex",
     "hex", "octal", "binary", "gzip", "js_escape", "jwt", "rot13"}

\* The result r of a string-valued call as a value for setOutput.
AsText(r) == IF r.ok THEN Ok(Text(r.val)) ELSE r

\* dec.decode(r) of a byte-valued call r.
Decoded(r) == IF r.ok THEN Ok(Text(dec(r.val))) ELSE r

EncodeOf(m, t) ==
    CASE m = "url" -> AsText(urlEncode(t))
      [] m = "url_u" -> Ok(Text(urlUEncode(t)))
      [] m = "formurl" -> AsText(formUrlEncode(t))
      [] m = "base64" -> Ok(Text(toBase64(enc(t))))
      [] m = "base64url" -> Ok(Text(toBase64Url(toBase64(enc(t)))))
      [] m = "html" -> Ok(Text(htmlEncode(t)))
      [] m = "ascii_hex" -> Ok(Text(asciiHexEncode(t)))
      [] m = "hex" -> Ok(Text(hexEncode(t)))
      [] m = "octal" -> Ok(Text(octalEncode(t)))
      [] m = "binary" -> Ok(Text(binaryEncode(t)))
      [] m = "gzip" -> Ok(Text(gzipCompressToBase64(t)))
      [] m = "js_escape" -> Ok(Text(jsEscape(t)))
      [] m = "jwt" -> Ok(Message("jwt is not encoded: signing needed"))
      [] m = "rot13" -> Ok(Text(rot13(t)))

\* A null j raised as an exception instead of replaced by the message.
OrNotJwtThrows(j) == IF j.ok THEN j ELSE Thrown("TypeError")

\* j ?? "cannot be interpreted as JWT"
OrNotJwt(j) == IF j.ok THEN j ELSE Ok(Message("cannot be interpreted as JWT"))

DecodeOf(m, t) ==
    CASE m = "url" -> AsText(urlDecode(t))
      [] m = "url_u" -> Ok(Text(urlUDecode(t)))
      [] m = "formurl" -> AsText(formUrlDecode(t))
      [] m = "base64" -> Decoded(fromBase64(t))
      [] m = "base64url" -> Decoded(fromBase64Url(t))
      [] m = "html" -> Ok(Text(htmlDecode(t)))
      [] m = "ascii_hex" -> AsText(asciiHexDecode(t))
      [] m = "hex" -> Decoded(hexDecodeToU8(t))
      [] m = "octal" -> Decoded(octalDecodeU8(t))
      [] m = "binary" -> Decoded(binaryDecodeU8(t))
      [] m = "gzip" -> AsText(gzipDecompressFromBase64(t))
      [] m = "js_escape" -> Ok(Text(jsUnescape(t)))
      [] m = "jwt" -> OrNotJwt(tryDecodeJwt(t))
      [] m = "rot13" -> Ok(Text(rot13(t)))

\* Whether the handler is suspended at an await on a stream before its
\* setOutput: a promise that is already rejected when awaited resumes the
\* handler before any other event is handled.

(***************************************************************************)
(* Smart Decode (lines 274-323): the cascade.                              *)
(***************************************************************************)
\* The cascade with the hex step moved before the base64 step.
OrderHexFirst ==
    <<"jwt", "gzip", "hex", "base64", "base64url", "url_u", "url", "formurl", "html",
      "ascii_hex", "binary", "octal", "rot13">>

\* The order in which smart() tries the codecs.
Order ==
    <<"jwt", "gzip", "base64", "base64url", "url_u", "url", "formurl", "html",
      "hex", "ascii_hex", "binary", "octal", "rot13">>

HasPercentU(s) == \E i \in 1..Len(s) : IsPercentUAt(s, i)
HasPercent(s) == \E i \in 1..Len(s) : IsPercentAt(s, i)
HasLetter(s) == \E i \in 1..Len(s) : IsAlpha(s[i])

RECURSIVE AlphaRun(_, _)
AlphaRun(s, i) == IF i <= Len(s) /\ IsAlpha(s[i]) THEN 1 + AlphaRun(s, i + 1) ELSE 0

\* /&(?:[a-z]+|#\d+|#x[0-9a-f]+);/i
HasEntity(s) ==
    \E i \in 1..Len(s) :
        /\ s[i] = 38
        /\ LET Semi(j) == j <= Len(s) /\ s[j] = 59 IN
           \/ AlphaRun(s, i + 1) > 0 /\ Semi(i + 1 + AlphaRun(s, i + 1))
           \/ /\ i + 1 <= Len(s)
              /\ s[i + 1] = 35
              /\ DigitRun(s, i + 2) > 0
              /\ Semi(i + 2 + DigitRun(s, i + 2))
           \/ /\ i + 2 <= Len(s)
              /\ s[i + 1] = 35
              /\ (s[i + 2] = 120 \/ s[i + 2] = 88)
              /\ HexRun(s, i + 3) > 0
              /\ Semi(i + 3 + HexRun(s, i + 3))

\* The url step's condition (line 296): the input, or its re-encoding, holds
\* a %XX.  encodeURIComponent is evaluated outside any try block.
UrlGuard(s) ==
    IF HasPercent(s) THEN "yes"
    ELSE IF ~encodeURIComponent(s).ok THEN "throw"
    ELSE IF HasPercent(encodeURIComponent(s).val) THEN "yes"
    ELSE "no"

\* The condition under which a step makes its attempt: "yes", "no", or
\* "throw" when evaluating it throws outside a try block.
YesNo(b) == IF b THEN "yes" ELSE "no"

\* A gzip step entered whenever fromBase64 does not throw.
HasGzipMagicLoose(u8) == u8.ok

\* Lines 283-284: fromBase64 does not throw and the bytes open with 1F 8B.
HasGzipMagic(u8) == u8.ok /\ Len(u8.val) >= 2 /\ u8.val[1] = 31 /\ u8.val[2] = 139

\* StepGuard with an html step that has no condition.
StepGuardOpenHtml(step, s) ==
    CASE step = "gzip" -> YesNo(HasGzipMagic(fromBase64(s)))
      [] step = "url_u" -> YesNo(HasPercentU(s))
      [] step = "url" -> UrlGuard(s)
      [] step = "formurl" -> YesNo((\E i \in 1..Len(s) : s[i] = 43) /\ HasPercent(s))
      [] OTHER -> "yes"

StepGuard(step, s) ==
    CASE step = "gzip" -> YesNo(HasGzipMagic(fromBase64(s)))
      [] step = "url_u" -> YesNo(HasPercentU(s))
      [] step = "url" -> UrlGuard(s)
      [] step = "formurl" -> YesNo((\E i \in 1..Len(s) : s[i] = 43) /\ HasPercent(s))
      [] step = "html" -> YesNo(HasEntity(s))
      [] OTHER -> "yes"

\* The attempt of a step: the value it gives to setOutput, or ok = FALSE
\* when the step does not succeed.
StepAttempt(step, s) ==
    CASE step = "jwt" -> tryDecodeJwt(s)
      [] step = "gzip" -> AsText(gzipDecompressFromBase64(s))
      [] step = "base64" -> Decoded(fromBase64(s))
      [] step = "base64url" -> Decoded(fromBase64Url(s))
      [] step = "url_u" -> Ok(Text(urlUDecode(s)))
      [] step = "url" -> AsText(urlDecode(s))
      [] step = "formurl" -> AsText(formUrlDecode(s))
      [] step = "html" -> Ok(Text(htmlDecode(s)))
      [] step = "hex" -> Decoded(hexDecodeToU8(s))
      [] step = "ascii_hex" -> AsText(asciiHexDecode(s))
      [] step = "binary" -> Decoded(binaryDecodeU8(s))
      [] step = "octal" -> Decoded(octalDecodeU8(s))
      [] step = "rot13" -> IF HasLetter(s) /\ HasLetter(rot13(s))
                           THEN Ok(Text(rot13(s))) ELSE Thrown("no letter")

\* Steps written  try { setMethod(c); setOutput(decode(s)); ... } catch { } :
\* setMethod(c) is called before the decode that may throw.  The jwt, gzip
\* and rot13 steps call setMethod only once they have their result.

\* The k-th step of smart(), g being its condition and r its attempt, and
\* the steps after it.  writes: the arguments of the setMethod calls made so
\* far, in order; tried: the steps whose attempt was made.  outcome
\* "suspended": the handler is at the await of the gzip step.
RECURSIVE Cascade(_, _, _, _)
CascadeStep(s, k, writes, tried, g, r) ==
    IF g = "throw"
    THEN [outcome |-> "thrown", codec |-> "none", out |-> ErrorText("URIError"),
          writes |-> writes, tried |-> tried]
    ELSE IF g = "no" THEN Cascade(s, k + 1, writes, tried)
    ELSE IF Order[k] = "gzip"
         THEN [outcome |-> "suspended", codec |-> "none", out |-> Text(<< >>),
               writes |-> writes, tried |-> Append(tried, Order[k])]
    ELSE IF r.ok
         THEN [outcome |-> "success", codec |-> Order[k], out |-> r.val,
               writes |-> Append(writes, Order[k]), tried |-> Append(tried, Order[k])]
    ELSE Cascade(s, k + 1,
                 IF Order[k] \notin {"jwt", "gzip", "rot13"} THEN Append(writes, Order[k]) ELSE writes,
                 Append(tried, Order[k]))

\* The steps of smart() from the k-th on.
Cascade(s, k, writes, tried) ==
    IF k > Len(Order)
    THEN [outcome |-> "undetermined", codec |-> "none",
          out |-> Message("format could not be determined"),
          writes |-> writes, tried |-> tried]
    ELSE CascadeStep(s, k, writes, tried, StepGuard(Order[k], s), StepAttempt(Order[k], s))

\* smart() from its first line to its return, its throw or its await.
SmartRun(s) == Cascade(s, 1, << >>, << >>)

\* smart() from the settlement r of the promise it awaits (line 285) on.
SmartAfterGzip(s, tried, r) ==
    IF r.ok
    THEN [outcome |-> "success", codec |-> "gzip", out |-> r.val,
          writes |-> <<"gzip">>, tried |-> tried]
    ELSE Cascade(s, 3, << >>, tried)

SmartResume(s, tried) == SmartAfterGzip(s, tried, StepAttempt("gzip", s))

(***************************************************************************)
(* Bounds of the model and the inputs it draws.                            *)
(***************************************************************************)
\* Handler invocations (Encode, Decode, Smart Decode clicks) in a behaviour
\* of Spec.
MaxCalls == 2

\* Pieces an input of Smart Decode is put together from, and how many.
MaxTokens == 3

\* Length, in code units, of a text given to a codec.
MaxTextLen == 3

\* "MQ." "MQ" "H4s" "A" "41" "%" "u00" "-" "&lt;" "5" " " "+" "+%ff" and a
\* lone high surrogate.  "MQ" is the Base64 of the JSON text 1, "H4s" of the gzip
\* magic bytes.
SmartTokens ==
    { <<77, 81, 46>>, <<77, 81>>, <<72, 52, 115>>, <<65>>, <<52, 49>>, <<37>>,
      <<117, 48, 48>>, <<45>>, <<38, 108, 116, 59>>, <<53>>, <<32>>, <<43>>,
      <<43, 37, 102, 102>>, <<55296>> }

SmartInputs ==
    {Flatten(ts) : ts \in UNION {[1..n -> SmartTokens] : n \in 0..MaxTokens}}

\* Code units of the texts given to the codecs: A z space % + e-acute,
\* hiragana a, the two halves of U+1F600, and U+FEFF.
TextUnits == {65, 122, 32, 37, 43, 233, 12354, 55357, 56832, 65279}


\* Inputs typed into the panel in Spec: empty, "H4sA", "41", "MQ.MQ.", "%"
UiInputs ==
    { << >>, <<72, 52, 115, 65>>, <<52, 49>>, <<77, 81, 46, 77, 81, 46>>, <<37>> }

(***************************************************************************)
(* The panel (lines 202-323).                                              *)
(*   input, output, method, status : the component's state                 *)
(*   statusTimer : ref: statusTimerRef.current, the id of the timeout that  *)
(*                 the last show() armed (0: null); armed: the ids of the  *)
(*                 timeouts that are pending; mounted: the cleanup of the  *)
(*                 effect of line 209 has not run                          *)
(*   pending     : the handler invocations suspended at an await on a gzip *)
(*                 stream, each with the input and method it captured      *)
(*   calls       : number of handler invocations started so far; the       *)
(*                 invocation started n-th has id n                        *)
(*   outBy, methodBy : id of the invocation whose setOutput / setMethod    *)
(*                 was the last one (0: none)                              *)
(*   last        : what the invocation that finished last did              *)
(*   rt          : a codec applied to a text and back, outside the panel   *)
(***************************************************************************)
VARIABLES input, output, method, status, statusTimer, pending, calls, outBy,
          methodBy, last, rt, pw

vars == <<input, output, method, status, statusTimer, pending, calls, outBy,
          methodBy, last, rt, pw>>

NoStatus == [text |-> "", tone |-> "none"]

NoCall ==
    [id |-> 0, kind |-> "none", s |-> << >>, outcome |-> "none", codec |-> "none",
     tried |-> << >>, writes |-> << >>]

NotRun == Thrown("not run")

\* The password generator is not on screen.
NoPw ==
    [impl |-> "none", on |-> <<TRUE, TRUE, TRUE, TRUE>>, exclude |-> << >>,
     length |-> 0, count |-> 0, passwords |-> << >>, n |-> 0]

\* useRef<number | null>(null) on a mounted component (line 207).
NoTimer == [ref |-> 0, armed |-> {}, mounted |-> TRUE]

RtIdle == [stage |-> "idle", codec |-> "none", t |-> << >>, e |-> NotRun, d |-> NotRun]

Init ==
    /\ input = << >>
    /\ output = Text(<< >>)
    /\ method = "url"
    /\ status = NoStatus
    /\ statusTimer = NoTimer
    /\ pending = << >>
    /\ calls = 0
    /\ outBy = 0
    /\ methodBy = 0
    /\ last = NoCall
    /\ rt = RtIdle
    /\ pw = NoPw

\* show(text, tone) without the clearTimeout of line 213.
ShowNoClear(text, tone) ==
    /\ status' = [text |-> text, tone |-> tone]
    /\ statusTimer' = [statusTimer EXCEPT !.ref = @ + 1,
                                          !.armed = @ \cup {statusTimer.ref + 1}]

\* show(text, tone) (lines 211-215): the status is set, the timeout the ref
\* names is cleared and a new one is armed, whose id (a number no earlier
\* setTimeout returned) is stored in the ref.
Show(text, tone) ==
    /\ status' = [text |-> text, tone |-> tone]
    /\ statusTimer' = [statusTimer EXCEPT !.ref = @ + 1,
                                          !.armed = (@ \ {statusTimer.ref})
                                                        \cup {statusTimer.ref + 1}]

\* A timeout armed by show() fires (line 214): setStatus(null).
StatusTimeout ==
    /\ \E id \in statusTimer.armed :
           statusTimer' = [statusTimer EXCEPT !.armed = @ \ {id}]
    /\ status' = NoStatus
    /\ UNCHANGED <<input, output, method, pending, calls, outBy, methodBy, last, rt, pw>>

\* onChange of the input field (line 385).
TypeInput(t) ==
    /\ input # t
    /\ input' = t
    /\ UNCHANGED <<output, method, status, statusTimer, pending, calls, outBy,
                   methodBy, last, rt, pw>>

\* A codec is picked in the menu (line 356).
PickMethod(m) ==
    /\ method # m
    /\ method' = m
    /\ methodBy' = 0
    /\ UNCHANGED <<input, output, status, statusTimer, pending, calls, outBy, last, rt, pw>>

\* Finish with a catch clause that writes the output but shows no status.
FinishSilent(id, kind, m, s, r, failed) ==
    /\ output' = IF r.ok THEN r.val ELSE ErrorText(r.err)
    /\ outBy' = id
    /\ UNCHANGED <<status, statusTimer>>
    /\ last' = [id |-> id, kind |-> kind, s |-> s,
                outcome |-> IF r.ok THEN "success" ELSE "caught", codec |-> m,
                tried |-> << >>, writes |-> << >>]

\* The part of encode() / decode() after the codec has given its result r:
\* setOutput(r), or the catch clause.
Finish(id, kind, m, s, r, failed) ==
    /\ output' = IF r.ok THEN r.val ELSE ErrorText(r.err)
    /\ outBy' = id
    /\ IF r.ok THEN UNCHANGED <<status, statusTimer>> ELSE Show(failed, "error")
    /\ last' = [id |-> id, kind |-> kind, s |-> s,
                outcome |-> IF r.ok THEN "success" ELSE "caught", codec |-> m,
                tried |-> << >>, writes |-> << >>]

Suspend(id, kind, m, s, tried) ==
    pending' = Append(pending, [id |-> id, kind |-> kind, m |-> m, s |-> s, tried |-> tried])

\* encode() (lines 222-244), up to its return or its await.
EncodeClick ==
    /\ calls < MaxCalls
    /\ calls' = calls + 1
    /\ IF method = "gzip"
       THEN /\ Suspend(calls + 1, "encode", method, input, << >>)
            /\ UNCHANGED <<output, outBy, status, statusTimer, last>>
       ELSE /\ Finish(calls + 1, "encode", method, input, EncodeOf(method, input),
                      "encode failed")
            /\ UNCHANGED pending
    /\ UNCHANGED <<input, method, methodBy, rt, pw>>

\* decode() (lines 246-272), up to its return or its await.
DecodeClick ==
    /\ calls < MaxCalls
    /\ calls' = calls + 1
    /\ IF method = "gzip" /\ fromBase64(input).ok
       THEN /\ Suspend(calls + 1, "decode", method, input, << >>)
            /\ UNCHANGED <<output, outBy, status, statusTimer, last>>
       ELSE /\ Finish(calls + 1, "decode", method, input, DecodeOf(method, input),
                      "decode failed")
            /\ UNCHANGED pending
    /\ UNCHANGED <<input, method, methodBy, rt, pw>>

\* The state updates of smart() between two awaits, r being what the
\* cascade did there: the setMethod calls take effect in order, and a step
\* that succeeded gives setOutput and show; the undetermined end gives the
\* fixed message; an exception leaves smart() with the setMethod calls made.
SmartEffect(id, s, r) ==
    /\ method' = IF r.writes = << >> THEN method ELSE r.writes[Len(r.writes)]
    /\ methodBy' = IF r.writes = << >> THEN methodBy ELSE id
    /\ IF r.outcome \in {"success", "undetermined"}
       THEN /\ output' = r.out
            /\ outBy' = id
            /\ IF r.outcome = "success" THEN Show(r.codec, "success")
               ELSE Show("could not determine", "info")
       ELSE UNCHANGED <<output, outBy, status, statusTimer>>
    /\ last' = [id |-> id, kind |-> "smart", s |-> s, outcome |-> r.outcome,
                codec |-> r.codec, tried |-> r.tried, writes |-> r.writes]

\* smart() (lines 274-323), up to its return, its throw or its await.
SmartBegin(s, r) ==
    IF r.outcome = "suspended"
    THEN /\ Suspend(calls + 1, "smart", method, s, r.tried)
         /\ UNCHANGED <<output, outBy, method, methodBy, status, statusTimer, last>>
    ELSE /\ SmartEffect(calls + 1, s, r)
         /\ UNCHANGED pending

SmartClick ==
    /\ calls < MaxCalls
    /\ calls' = calls + 1
    /\ SmartBegin(Trim(input), SmartRun(Trim(input)))
    /\ UNCHANGED <<input, rt, pw>>

\* The stream a suspended invocation awaits settles and the invocation runs
\* to its end.  The streams of different invocations settle in any order.
Settle(i) ==
    /\ i \in 1..Len(pending)
    /\ LET p == pending[i] IN
       /\ pending' = [k \in 1..(Len(pending) - 1) |->
                          IF k < i THEN pending[k] ELSE pending[k + 1]]
       /\ CASE p.kind = "encode" ->
                 /\ Finish(p.id, "encode", p.m, p.s, EncodeOf(p.m, p.s), "encode failed")
                 /\ UNCHANGED <<method, methodBy>>
            [] p.kind = "decode" ->
                 /\ Finish(p.id, "decode", p.m, p.s, DecodeOf(p.m, p.s), "decode failed")
                 /\ UNCHANGED <<method, methodBy>>
            [] p.kind = "smart" -> SmartEffect(p.id, p.s, SmartResume(p.s, p.tried))
    /\ UNCHANGED <<input, calls, rt, pw>>

Next ==
    \/ \E t \in UiInputs : TypeInput(t)
    \/ \E m \in Methods : PickMethod(m)
    \/ EncodeClick
    \/ DecodeClick
    \/ SmartClick
    \/ \E i \in 1..Len(pending) : Settle(i)
    \/ StatusTimeout

Spec == Init /\ [][Next]_vars

(***************************************************************************)
(* SpecSmart: Smart Decode pressed once, on any input of SmartInputs.      *)
(***************************************************************************)
\* The input is put together from the tokens, or is what Encode with the
\* gzip codec gives for a text of one code unit.
InitSmart ==
    /\ input \in SmartInputs \cup {gzipCompressToBase64(<<u>>) : u \in TextUnits}
    /\ output = Text(<< >>)
    /\ method = "url"
    /\ status = NoStatus
    /\ statusTimer = NoTimer
    /\ pending = << >>
    /\ calls = 0
    /\ outBy = 0
    /\ methodBy = 0
    /\ last = NoCall
    /\ rt = RtIdle
    /\ pw = NoPw

SmartOnce == calls = 0 /\ SmartClick

SmartSettle == \E i \in 1..Len(pending) : Settle(i)

NextSmart == SmartOnce \/ SmartSettle

SpecSmart == InitSmart /\ [][NextSmart]_vars

(***************************************************************************)
(* SpecCodec: a codec encodes a bounded text and decodes what it wrote.    *)
(***************************************************************************)
InitCodec ==
    /\ input = << >>
    /\ output = Text(<< >>)
    /\ method = "url"
    /\ status = NoStatus
    /\ statusTimer = NoTimer
    /\ pending = << >>
    /\ calls = 0
    /\ outBy = 0
    /\ methodBy = 0
    /\ last = NoCall
    /\ pw = NoPw
    /\ rt \in {[stage |-> "start", codec |-> c, t |-> t, e |-> NotRun, d |-> NotRun] :
                  c \in Methods, t \in UNION {[1..n -> TextUnits] : n \in 0..MaxTextLen}}

RtEncode ==
    /\ rt.stage = "start"
    /\ rt' = [rt EXCEPT !.stage = "encoded", !.e = EncodeOf(rt.codec, rt.t)]
    /\ UNCHANGED <<input, output, method, status, statusTimer, pending, calls, outBy,
                   methodBy, last, pw>>

RtDecode ==
    /\ rt.stage = "encoded"
    /\ rt.e.ok
    /\ rt.e.val.kind = "text"
    /\ rt' = [rt EXCEPT !.stage = "decoded", !.d = DecodeOf(rt.codec, rt.e.val.text)]
    /\ UNCHANGED <<input, output, method, status, statusTimer, pending, calls, outBy,
                   methodBy, last, pw>>

NextCodec == RtEncode \/ RtDecode

SpecCodec == InitCodec /\ [][NextCodec]_vars

(***************************************************************************)
(* SpecStatus: the life of the status message, from the mounting of the    *)
(* panel to after its unmounting.  The browser runs a timeout that is not  *)
(* cleared: StatusTimeout is weakly fair.  A handler suspended at an await *)
(* resumes after the unmounting too.                                       *)
(***************************************************************************)
\* The cleanup of the effect of line 209: the timeout the ref names is
\* cleared.
Unmount ==
    /\ statusTimer.mounted
    /\ statusTimer' = [statusTimer EXCEPT !.mounted = FALSE,
                                          !.armed = @ \ {statusTimer.ref}]
    /\ UNCHANGED <<input, output, method, status, pending, calls, outBy, methodBy,
                   last, rt, pw>>

InitStatus ==
    /\ input \in UiInputs
    /\ output = Text(<< >>)
    /\ method \in {"hex", "gzip"}
    /\ status = NoStatus
    /\ statusTimer = NoTimer
    /\ pending = << >>
    /\ calls = 0
    /\ outBy = 0
    /\ methodBy = 0
    /\ last = NoCall
    /\ rt = RtIdle
    /\ pw = NoPw

NextStatus ==
    \/ statusTimer.mounted /\ DecodeClick
    \/ statusTimer.mounted /\ SmartClick
    \/ \E i \in 1..Len(pending) : Settle(i)
    \/ StatusTimeout
    \/ Unmount

SpecStatus == InitStatus /\ [][NextStatus]_vars /\ WF_vars(StatusTimeout)

(***************************************************************************)
(* One invocation of one handler on a given input with a given codec       *)
(* selected.                                                               *)
(***************************************************************************)
\* How many pieces an input of SpecHandler is put together from.
MaxParts == 2

\* "41" "4" "zz" " " "00000000 " "11111111" "1010" "MQ.MQ" "MQ" "." ".MQ.MQ"
\* "%" "H4s" "A", a lone high surrogate, "777", "%u0025" and "+".
HandlerTokens ==
    { <<52, 49>>, <<52>>, <<122, 122>>, <<32>>, <<48, 48, 48, 48, 48, 48, 48, 48, 32>>,
      <<49, 49, 49, 49, 49, 49, 49, 49>>, <<49, 48, 49, 48>>,
      <<77, 81, 46, 77, 81>>, <<77, 81>>, <<46>>, <<46, 77, 81, 46, 77, 81>>,
      <<37>>, <<72, 52, 115>>, <<65>>, <<55296>>, <<55, 55, 55>>,
      <<37, 117, 48, 48, 50, 53>>, <<43>> }

InitHandler ==
    /\ input \in {Flatten(ts) : ts \in UNION {[1..n -> HandlerTokens] : n \in 0..MaxParts}}
    /\ output = Text(<< >>)
    /\ method \in Methods
    /\ status = NoStatus
    /\ statusTimer = NoTimer
    /\ pending = << >>
    /\ calls = 0
    /\ outBy = 0
    /\ methodBy = 0
    /\ last = NoCall
    /\ rt = RtIdle
    /\ pw = NoPw

EncodeOnce == calls = 0 /\ EncodeClick

DecodeOnce == calls = 0 /\ DecodeClick

NextHandler == EncodeOnce \/ DecodeOnce \/ SmartOnce \/ SmartSettle

SpecHandler == InitHandler /\ [][NextHandler]_vars

(***************************************************************************)
(* The password generator: pages/generatePassword.tsx (impl "page") and    *)
(* the component of the same name in Top.tsx (impl "top").                 *)
(***************************************************************************)
\* How many times Generate is clicked.
MaxGenerations == 1

\* How many random draws one password takes: its length, 6 or more.
MaxDraws == 6

LOWER == [i \in 1..26 |-> 96 + i]

UPPER == [i \in 1..26 |-> 64 + i]

DIGITS == [i \in 1..10 |-> 47 + i]

\* "!@#$%^&*"
SPECIALS == <<33, 64, 35, 36, 37, 94, 38, 42>>

\* "!@#$%^&*()-_=+[]{};:,.?/"
SYMBOLS ==
    <<33, 64, 35, 36, 37, 94, 38, 42, 40, 41, 45, 95, 61, 43, 91, 93, 123, 125,
      59, 58, 44, 46, 63, 47>>

\* The characters of toRemove (generatePassword.tsx, lines 44-49): the
\* pieces of exclude between commas that, trimmed, are one character long.
excludeSet(exclude) ==
    {c \in {exclude[i] : i \in 1..Len(exclude)} :
        \E i \in 1..Len(exclude), j \in 1..Len(exclude) :
            /\ i <= j
            /\ i = 1 \/ exclude[i - 1] = 44
            /\ j = Len(exclude) \/ exclude[j + 1] = 44
            /\ \A k \in i..j : exclude[k] # 44
            /\ Trim(SubSeq(exclude, i, j)) = <<c>>}

\* p.split("").filter((ch) => !ex.has(ch)).join(""), or dflt when
\* nothing is left.
Without(p, ex, dflt) ==
    IF \A k \in 1..Len(p) : p[k] \in ex THEN dflt
    ELSE SelectSeq(p, LAMBDA ch : ch \notin ex)

\* buildPool (generatePassword.tsx, lines 35-59).
buildPool(on, exclude) ==
    Without(Flatten([i \in 1..4 |->
                IF on[i] THEN <<LOWER, UPPER, DIGITS, SPECIALS>>[i] ELSE << >>]),
            IF Trim(exclude) # << >> THEN excludeSet(exclude) ELSE {},
            LOWER \o DIGITS \o SPECIALS)

\* A rearrangement of arr: as it is, or reversed.
shuffle(arr, rev) ==
    IF rev THEN [k \in 1..Len(arr) |-> arr[Len(arr) + 1 - k]] ELSE arr

\* One character drawn from each bucket, then characters drawn from p up to
\* the length needed; rnd holds the random draws in order, 0 for the first
\* index of the string drawn from and 1 for its last index.
Draw(buckets, p, needed, rnd) ==
    [k \in 1..(IF needed > Len(buckets) THEN needed ELSE Len(buckets)) |->
        IF k <= Len(buckets)
        THEN buckets[k][IF rnd[k] = 0 THEN 1 ELSE Len(buckets[k])]
        ELSE p[IF rnd[k] = 0 THEN 1 ELSE Len(p)]]

\* generateOne (generatePassword.tsx, lines 62-90), rnd being the draws of
\* Math.random() in order and rev the rearrangement made by the sort.
generateOne(p, on, length, rnd, rev) ==
    shuffle(Draw(SelectSeq([i \in 1..4 |->
                               IF on[i]
                               THEN SelectSeq(p, LAMBDA c :
                                        \E k \in 1..Len(<<LOWER, UPPER, DIGITS, SPECIALS>>[i]) :
                                            <<LOWER, UPPER, DIGITS, SPECIALS>>[i][k] = c)
                               ELSE << >>],
                           LAMBDA b : b # << >>),
                 p, IF length > 6 THEN length ELSE 6, rnd),
            rev)

\* handleGenerate (generatePassword.tsx, lines 92-101).
handleGenerate ==
    /\ pw.impl = "page"
    /\ pw.n < MaxGenerations
    /\ LET p == buildPool(pw.on, pw.exclude) IN
       \E rnd \in [1..MaxDraws -> {0, 1}], rev \in BOOLEAN :
           pw' = [pw EXCEPT
                     !.n = @ + 1,
                     !.passwords =
                         [k \in 1..(IF pw.count > 1 THEN pw.count ELSE 1) |->
                             generateOne(p, pw.on, pw.length, rnd, rev)]]
    /\ UNCHANGED <<input, output, method, status, statusTimer, pending, calls, outBy,
                   methodBy, last, rt>>

\* pool (Top.tsx, lines 169-181).
pool(on, exclude) ==
    LET p == Without(Flatten([i \in 1..4 |->
                        IF on[i] THEN <<LOWER, UPPER, DIGITS, SYMBOLS>>[i] ELSE << >>]),
                     {exclude[k] : k \in 1..Len(exclude)},
                     LOWER \o DIGITS)
        firsts == SelectSeq([i \in 1..Len(p) |-> i],
                            LAMBDA i : \A j \in 1..(i - 1) : p[j] # p[i])
    IN  [k \in 1..Len(firsts) |-> p[firsts[k]]]

\* generateOne (Top.tsx, lines 187-200).  res has Math.max(6, length)
\* elements, so slice(0, length) keeps its first length elements.
TopGenerateOne(p, on, length, rnd, rev) ==
    SubSeq(shuffle(Draw(SelectSeq([i \in 1..4 |->
                                       IF on[i]
                                       THEN SelectSeq(<<LOWER, UPPER, DIGITS, SYMBOLS>>[i],
                                                LAMBDA c : \E k \in 1..Len(p) : p[k] = c)
                                       ELSE << >>],
                                   LAMBDA b : b # << >>),
                         p, IF length > 6 THEN length ELSE 6, rnd),
                    rev),
           1, length)

\* handleGenerate (Top.tsx, lines 202-207).
TopHandleGenerate ==
    /\ pw.impl = "top"
    /\ pw.n < MaxGenerations
    /\ LET p == pool(pw.on, pw.exclude) IN
       \E rnd \in [1..MaxDraws -> {0, 1}], rev \in BOOLEAN :
           pw' = [pw EXCEPT
                     !.n = @ + 1,
                     !.passwords =
                         [k \in 1..(IF pw.count > 1
                                    THEN (IF pw.count < 10 THEN pw.count ELSE 10)
                                    ELSE 1) |->
                             TopGenerateOne(p, pw.on, pw.length, rnd, rev)]]
    /\ UNCHANGED <<input, output, method, status, statusTimer, pending, calls, outBy,
                   methodBy, last, rt>>

\* The settings of the generator: either component, every combination of
\* the four switches, a length of 4 or 6, a count of 0 or 1, and an exclude
\* field of "", "a, 9", "!,@,#,$,%,^,&,*" or "0123456789".
InitPw ==
    /\ input = << >>
    /\ output = Text(<< >>)
    /\ method = "url"
    /\ status = NoStatus
    /\ statusTimer = NoTimer
    /\ pending = << >>
    /\ calls = 0
    /\ outBy = 0
    /\ methodBy = 0
    /\ last = NoCall
    /\ rt = RtIdle
    /\ pw \in [impl : {"page", "top"},
               on : [1..4 -> BOOLEAN],
               exclude : { << >>, <<97, 44, 32, 57>>,
                           <<33, 44, 64, 44, 35, 44, 36, 44, 37, 44, 94, 44, 38, 44, 42>>,
                           DIGITS },
               length : {4, 6},
               count : {0, 1},
               passwords : {<< >>},
               n : {0}]

NextPw == handleGenerate \/ TopHandleGenerate

SpecPw == InitPw /\ [][NextPw]_vars

(***************************************************************************)
(* Properties.                                                             *)
(***************************************************************************)
\* The order of the cascade as the specification of the panel lists it.
ClaimOrder ==
    <<"jwt", "gzip", "base64", "base64url", "url_u", "url", "formurl", "html",
      "hex", "ascii_hex", "binary", "octal", "rot13">>

PositionIn(order, c) == CHOOSE i \in 1..Len(order) : order[i] = c

\* The step's own condition holds on s and its own decode attempt succeeds.
StepMatches(step, s) == StepGuard(step, s) = "yes" /\ StepAttempt(step, s).ok

SmartDone == last.kind = "smart"

SmartDeclared(c) == SmartDone /\ last.outcome = "success" /\ last.codec = c

Attempted(step) == \E i \in 1..Len(last.tried) : last.tried[i] = step

\* C1: Smart Decode never throws: whatever the input, it ends either in a
\* success that names a codec or in the undetermined result; an exception in
\* a step's condition or attempt only makes that step not match.
C1_SmartNeverThrows ==
    SmartDone => last.outcome \in {"success", "undetermined"}

\* C2: Smart Decode is first-match over the order jwt, gzip, base64,
\* base64url, url_u, url, formurl, html, hex, ascii_hex, binary, octal, rot13:
\* the codec declared is the earliest step of that order whose condition
\* holds and whose attempt succeeds, the declared step is the last one
\* attempted, and a string that is valid Base64 and valid hex is declared
\* base64.
C2_FirstMatch ==
    /\ (SmartDone /\ last.outcome = "success") =>
           /\ StepMatches(last.codec, last.s)
           /\ \A j \in 1..(PositionIn(ClaimOrder, last.codec) - 1) :
                  ~StepMatches(ClaimOrder[j], last.s)
           /\ last.tried[Len(last.tried)] = last.codec
           /\ method = last.codec
    /\ (SmartDone /\ fromBase64(last.s).ok /\ hexDecodeToU8(last.s).ok) =>
           SmartDeclared("base64")

\* A non-empty string of hex digits, valid as Base64 too, declared base64.
C2_Witness ==
    /\ SmartDeclared("base64")
    /\ last.s # << >>
    /\ hexDecodeToU8(last.s).ok
    /\ fromBase64(last.s).ok

\* header.payload with one dot: two non-empty Base64URL segments that both
\* decode to JSON texts.
IsTwoSegmentJwt(s) ==
    /\ Cardinality(Dots(s)) = 1
    /\ \A i \in 1..Len(s) : IsJwtChar(s[i]) \/ s[i] = 46
    /\ LET d == CHOOSE i \in Dots(s) : TRUE IN
       /\ d > 1
       /\ d < Len(s)
       /\ JwtSegments(fromBase64Url(SubSeq(s, 1, d - 1)),
                      fromBase64Url(SubSeq(s, d + 1, Len(s)))).ok

\* C3: a two-segment token header.payload whose segments decode to JSON is
\* decoded as a JWT, and Smart Decode declares jwt for it.
C3_TwoSegmentJwt ==
    (SmartDone /\ IsTwoSegmentJwt(last.s)) => SmartDeclared("jwt")

\* Every white-space separated token of s is a pair of hex digits.
AllHexPairs(s) ==
    \A i \in 1..Len(SplitWhite(Trim(s))) :
        LET tok == SplitWhite(Trim(s))[i] IN
        Len(tok) = 2 /\ IsHexDigit(tok[1]) /\ IsHexDigit(tok[2])

\* s has no ASCII letter and none of the shapes steps 1-12 look for.
NoLetterNoPattern(s) ==
    /\ ~HasLetter(s)
    /\ ~tryDecodeJwt(s).ok
    /\ ~fromBase64(s).ok
    /\ ~fromBase64Url(s).ok
    /\ ~HasPercentU(s)
    /\ ~HasPercent(s)
    /\ ~HasEntity(s)
    /\ ~hexDecodeToU8(s).ok
    /\ ~AllHexPairs(s)
    /\ ~binaryDecodeU8(s).ok
    /\ ~octalDecodeU8(s).ok

\* C4: an input without ASCII letter that matches none of the structural
\* patterns of steps 1-12 gets the undetermined result.
C4_Undetermined ==
    (SmartDone /\ NoLetterNoPattern(last.s)) => last.outcome = "undetermined"

\* C5: base64 is declared only for an input that is valid Base64 and whose
\* decoded bytes are valid UTF-8.
C5_Base64NeedsUtf8 ==
    SmartDeclared("base64") =>
        fromBase64(last.s).ok /\ Utf8WellFormed(fromBase64(last.s).val)

\* C6: the url step is attempted only when the input itself holds a %XX
\* token, and an input without one is never declared url.
C6_UrlNeedsPercent ==
    /\ (SmartDone /\ Attempted("url")) => HasPercent(last.s)
    /\ SmartDeclared("url") => HasPercent(last.s)

\* C7: overlapping invocations do not interfere: once no invocation is
\* suspended, the output is the one written by the invocation started last.
C7_LastStartedWins ==
    (pending = << >> /\ calls > 0) => outBy = calls

RoundTripDone(codecs) ==
    rt.stage = "decoded" /\ rt.codec \in codecs /\ ~HasLoneSurrogate(rt.t)

RoundTripExact == rt.d.ok /\ rt.d.val = Text(rt.t)

\* C8: for hex, octal and binary, decoding the encoding of a text, the empty
\* text included, succeeds and gives the text back.
C8_ByteCodecsRoundTrip ==
    RoundTripDone({"hex", "octal", "binary"}) => RoundTripExact

\* C9: asciiHexDecode(asciiHexEncode(t)) = t for every text t, the empty
\* text and characters above U+FFFF included.
C9_AsciiHexRoundTrip ==
    RoundTripDone({"ascii_hex"}) => RoundTripExact

\* C10: urlUDecode(urlUEncode(t)) = t, and the same through jsEscape and
\* jsUnescape, for every text t, code points above U+FFFF included.
C10_UrlURoundTrip ==
    RoundTripDone({"url_u", "js_escape"}) => RoundTripExact

\* C11: for url, formurl, base64 and base64url, decoding the encoding of a
\* text of Unicode scalar values gives the text back (spaces and '+' for
\* formurl, every length modulo 3 for base64url).
C11_TextCodecsRoundTrip ==
    RoundTripDone({"url", "formurl", "base64", "base64url"}) => RoundTripExact

EncodeDone(c) == last.kind = "encode" /\ last.codec = c

DecodeDone(c) == last.kind = "decode" /\ last.codec = c

\* C12: ascii_hex decode fails whenever some white-space separated token of
\* the input is empty or is not exactly two hex digits.
C12_AsciiHexRejects ==
    (DecodeDone("ascii_hex") /\ ~AllHexPairs(last.s)) =>
        last.outcome = "caught" /\ output.kind = "error"

\* C13: encode with the jwt codec ends in the encode-failure outcome: the
\* error status is shown and no encoded token is produced.
C13_JwtEncodeFails ==
    EncodeDone("jwt") =>
        /\ last.outcome = "caught"
        /\ status.tone = "error"
        /\ output.kind # "text"

\* What the codec selected gave the invocation that ended last.
HandlerResult ==
    IF last.kind = "encode" THEN EncodeOf(last.codec, last.s)
    ELSE DecodeOf(last.codec, last.s)

FailedStatus ==
    [text |-> IF last.kind = "encode" THEN "encode failed" ELSE "decode failed",
     tone |-> "error"]

\* C14: a failure raised inside encode or decode, synchronous or from the
\* awaited gzip step, is caught by the handler: the output is the error's
\* description, the error status is shown, the input and the selected codec
\* are unchanged, and nothing is thrown out of the handler.
C14_FailuresCaught ==
    last.kind \in {"encode", "decode"} =>
        /\ last.outcome \in {"success", "caught"}
        /\ last.outcome = "caught" <=> ~HandlerResult.ok
        /\ ~HandlerResult.ok =>
               /\ output = ErrorText(HandlerResult.err)
               /\ status = FailedStatus
               /\ statusTimer.armed = {statusTimer.ref}
               /\ input = last.s
               /\ method = last.codec

\* A decode with gzip whose failure came from the awaited stream.
C14_Witness ==
    /\ DecodeDone("gzip")
    /\ last.outcome = "caught"
    /\ fromBase64(last.s).ok
    /\ output.kind = "error"

\* Header and payload of s, the text before the first dot and the text
\* between it and the second dot (or the end), decode to JSON texts.
JwtPartsAreJson(s) ==
    LET d1 == CHOOSE i \in Dots(s) : \A j \in Dots(s) : i <= j
        rest == {j \in Dots(s) : j > d1}
        d2 == IF rest = {} THEN Len(s) + 1
              ELSE CHOOSE i \in rest : \A j \in rest : i <= j
    IN JwtSegments(fromBase64Url(SubSeq(s, 1, d1 - 1)),
                   fromBase64Url(SubSeq(s, d1 + 1, d2 - 1))).ok

\* s is not a JWT: wrong number of segments, a character outside the
\* Base64URL alphabet, or a header or payload that is not JSON.
JwtMalformed(s) ==
    \/ Cardinality(Dots(s)) \notin {1, 2}
    \/ \E i \in 1..Len(s) : ~IsJwtChar(s[i]) /\ s[i] # 46
    \/ ~JwtPartsAreJson(s)

\* C15: decode with the jwt codec on a malformed input gives the fixed
\* message as output and raises nothing; in smart() the same input makes
\* the jwt step not match and the later steps are gone through.
C15_MalformedJwt ==
    /\ (DecodeDone("jwt") /\ JwtMalformed(last.s)) =>
           /\ last.outcome = "success"
           /\ output = Message("cannot be interpreted as JWT")
           /\ status = NoStatus
    /\ (SmartDone /\ JwtMalformed(last.s)) =>
           /\ last.codec # "jwt"
           /\ Len(last.tried) >= 2
           /\ last.tried[1] = "jwt"

\* A decode with jwt of three segments whose header or payload is not JSON.
C15_Witness ==
    /\ DecodeDone("jwt")
    /\ Cardinality(Dots(last.s)) = 2
    /\ \A i \in 1..Len(last.s) : IsJwtChar(last.s[i]) \/ last.s[i] = 46
    /\ ~JwtPartsAreJson(last.s)
    /\ output = Message("cannot be interpreted as JWT")

\* The jwt step does not match s and s is the Base64 of bytes that begin
\* with 0x1F 0x8B.
GzipCase(s) ==
    /\ ~tryDecodeJwt(s).ok
    /\ fromBase64(s).ok
    /\ Len(fromBase64(s).val) >= 2
    /\ fromBase64(s).val[1] = 31
    /\ fromBase64(s).val[2] = 139

\* C16: in the gzip case smart() attempts the decompression; when it
\* succeeds gzip is declared with the decompressed text, so that the Base64
\* of the gzip stream of a text t is detected as gzip and gives t; when it
\* fails the cascade goes on at the base64 step.
C16_GzipDetection ==
    /\ (SmartDone /\ GzipCase(last.s)) =>
           /\ last.tried[2] = "gzip"
           /\ IF gzipDecompressFromBase64(last.s).ok
              THEN /\ SmartDeclared("gzip")
                   /\ output = Text(gzipDecompressFromBase64(last.s).val)
              ELSE Len(last.tried) >= 3 /\ last.tried[3] = "base64"
    /\ \A u \in TextUnits :
           (SmartDone /\ ~HasLoneSurrogate(<<u>>)
                      /\ last.s = gzipCompressToBase64(<<u>>)) =>
               SmartDeclared("gzip") /\ output = Text(<<u>>)

\* From position i on, out is one escape per code point cps[k], cps[k+1], ..:
\* '%' and 2 hex digits below 0x80, "%u" and exactly 4 hex digits otherwise.
RECURSIVE UrlUShaped(_, _, _, _)
UrlUShaped(out, i, cps, k) ==
    IF k > Len(cps) THEN i = Len(out) + 1
    ELSE IF cps[k] < 128
         THEN IsPercentAt(out, i) /\ UrlUShaped(out, i + 3, cps, k + 1)
         ELSE IsPercentUAt(out, i) /\ UrlUShaped(out, i + 6, cps, k + 1)

\* C17: url_u encode emits one escape per code point of the input, %hh
\* below 0x80 and %u with exactly 4 hex digits from 0x80 on, never more than
\* 4 hex digits after %u.
C17_UrlUShape ==
    (rt.stage = "encoded" /\ rt.codec = "url_u") =>
        /\ rt.e.ok
        /\ UrlUShaped(rt.e.val.text, 1, CodePoints(rt.t), 1)

\* s without its white space.
NoWhite(s) == SelectSeq(s, LAMBDA c : ~IsJsWhite(c))

\* An even number of characters, all of them hex digits.
IsEvenHex(s) == Len(s) % 2 = 0 /\ \A i \in 1..Len(s) : IsHexDigit(s[i])

\* C18: hex decode rejects with "invalid hex" every input that, white space
\* removed, has odd length or a character that is not a hex digit, and
\* accepts every other input, giving one byte per pair of digits.
C18_HexRejects ==
    DecodeDone("hex") =>
        IF IsEvenHex(NoWhite(last.s))
        THEN /\ last.outcome = "success"
             /\ hexDecodeToU8(last.s).ok
             /\ 2 * Len(hexDecodeToU8(last.s).val) = Len(NoWhite(last.s))
        ELSE /\ last.outcome = "caught"
             /\ output = ErrorText("Error: invalid hex")
             /\ status = [text |-> "decode failed", tone |-> "error"]

\* A decode with hex of an odd number of hex digits, rejected.
C18_Witness ==
    /\ DecodeDone("hex")
    /\ Len(NoWhite(last.s)) % 2 = 1
    /\ \A i \in 1..Len(NoWhite(last.s)) : IsHexDigit(NoWhite(last.s)[i])
    /\ output = ErrorText("Error: invalid hex")

\* tok is 8 characters, each '0' or '1'.
Is8Bits(tok) == Len(tok) = 8 /\ \A k \in 1..8 : tok[k] \in {48, 49}

\* The value of a token of 8 bits, the first bit being the highest.
BitsValue(tok) ==
    (tok[1] - 48) * 128 + (tok[2] - 48) * 64 + (tok[3] - 48) * 32
    + (tok[4] - 48) * 16 + (tok[5] - 48) * 8 + (tok[6] - 48) * 4
    + (tok[7] - 48) * 2 + (tok[8] - 48)

\* C19: binary decode rejects every input that has a white-space separated
\* token which is not 8 characters of '0' / '1', and for an input whose
\* tokens are all of 8 bits it gives one byte per token, of the token's
\* value.
C19_BinaryRejects ==
    DecodeDone("binary") =>
        LET toks == SplitWhite(Trim(last.s)) IN
        IF \A i \in 1..Len(toks) : Is8Bits(toks[i])
        THEN /\ last.outcome = "success"
             /\ binaryDecodeU8(last.s) = Ok([i \in 1..Len(toks) |-> BitsValue(toks[i])])
             /\ output = Text(dec([i \in 1..Len(toks) |-> BitsValue(toks[i])]))
        ELSE /\ last.outcome = "caught"
             /\ output = ErrorText("Error: invalid binary")

\* "00000000 11111111" decoded to the bytes 0x00 0xFF.
C19_Witness ==
    /\ DecodeDone("binary")
    /\ last.outcome = "success"
    /\ binaryDecodeU8(last.s) = Ok(<<0, 255>>)

\* C20: rot13 is an involution that touches only ASCII letters: applied
\* twice it gives the text back, a character that is not an ASCII letter
\* stays as it is, and a letter becomes the letter of the same case 13
\* places away in the alphabet.
C20_Rot13Involution ==
    /\ (rt.codec = "rot13" /\ rt.stage \in {"encoded", "decoded"}) =>
           /\ rt.e.ok
           /\ Len(rt.e.val.text) = Len(rt.t)
           /\ \A i \in 1..Len(rt.t) :
                  LET c == rt.t[i]
                      r == rt.e.val.text[i]
                  IN IF c \in 65..90 THEN r \in 65..90 /\ (r - c) % 26 = 13
                     ELSE IF c \in 97..122 THEN r \in 97..122 /\ (r - c) % 26 = 13
                     ELSE r = c
    /\ (rt.codec = "rot13" /\ rt.stage = "decoded") => rt.d = Ok(Text(rt.t))

\* rot13 applied twice to a text that has a letter and another character.
C20_Witness ==
    /\ rt.codec = "rot13"
    /\ rt.stage = "decoded"
    /\ \E i \in 1..Len(rt.t) : rt.t[i] \in 97..122 /\ rt.e.val.text[i] # rt.t[i]
    /\ \E i \in 1..Len(rt.t) : rt.t[i] > 127

\* C21: the output of base64url encode has none of the characters '+', '/'
\* and '='.
C21_Base64UrlAlphabet ==
    (rt.codec = "base64url" /\ rt.stage \in {"encoded", "decoded"}) =>
        /\ rt.e.ok
        /\ \A i \in 1..Len(rt.e.val.text) : rt.e.val.text[i] \notin {43, 47, 61}

\* A text whose Base64 has a '/' or a '+' and is padded.
C21_Witness ==
    /\ rt.codec = "base64url"
    /\ rt.stage = "encoded"
    /\ \E i \in 1..Len(toBase64(enc(rt.t))) : toBase64(enc(rt.t))[i] \in {43, 47}
    /\ \E i \in 1..Len(toBase64(enc(rt.t))) : toBase64(enc(rt.t))[i] = 61

\* None of steps 1-4 (jwt, gzip, base64, base64url) decodes s.
NotDecodedBefore5(s) ==
    \A j \in 1..4 : ~StepMatches(ClaimOrder[j], s)

\* C22: url_u is attempted only on an input with a %uXXXX token, formurl
\* only on one with a '+' and a %XX token, html only on one with an entity;
\* so none of the three is declared for an input without its pattern, and
\* an input with %uXXXX that steps 1-4 do not decode is declared url_u.
C22_GuardedSteps ==
    SmartDone =>
        /\ Attempted("url_u") => HasPercentU(last.s)
        /\ Attempted("formurl") =>
               (\E i \in 1..Len(last.s) : last.s[i] = 43) /\ HasPercent(last.s)
        /\ Attempted("html") => HasEntity(last.s)
        /\ \A c \in {"url_u", "formurl", "html"} :
               SmartDeclared(c) => Attempted(c)
        /\ (HasPercentU(last.s) /\ NotDecodedBefore5(last.s)) =>
               SmartDeclared("url_u")

\* An input with an entity on which the url step failed and html is declared.
C22_Witness ==
    /\ SmartDeclared("html")
    /\ HasEntity(last.s)
    /\ Attempted("url")

\* C23: smart() suspends at most once, and only in the gzip step after the
\* magic bytes matched: while it is suspended only jwt and gzip have been
\* attempted and nothing has been written, and once resumed it runs to its
\* end; on an input that is not a gzip case it runs to its end in one pass.
C23_SuspendsOnceInGzip ==
    /\ \A i \in 1..Len(pending) :
           pending[i].kind = "smart" =>
               /\ pending[i].tried = <<"jwt", "gzip">>
               /\ GzipCase(pending[i].s)
               /\ last.id # pending[i].id
               /\ outBy # pending[i].id
               /\ methodBy # pending[i].id
    /\ SmartDone =>
           /\ last.outcome # "suspended"
           /\ \A i \in 1..Len(pending) : pending[i].id # last.id
           /\ Cardinality({i \in 1..Len(last.tried) : last.tried[i] = "gzip"}) <= 1
           /\ Attempted("gzip") => GzipCase(last.s)
    /\ (calls = 1 /\ ~GzipCase(Trim(input))) => (SmartDone /\ pending = << >>)

\* A decompression that failed, after which the base64 step was attempted.
C23_Witness ==
    /\ SmartDone
    /\ Len(last.tried) >= 3
    /\ last.tried[2] = "gzip"
    /\ last.tried[3] = "base64"

\* C24: a cascade step whose decode attempt fails issues no update to the
\* selected codec: the setMethod calls of one smart() run are exactly the
\* one of the winning step, and none when no step wins, so that the
\* selected codec is then the one from before the call.
C24_NoWriteOfFailedAttempt ==
    SmartDone =>
        /\ last.writes = (IF last.outcome = "success" THEN <<last.codec>> ELSE << >>)
        /\ last.outcome # "success" => methodBy # last.id

\* The result of one whole smart() run on the trimmed input s: the run r up
\* to its first return, throw or await, resumed when it was suspended.
SmartFinalOf(s, r) == IF r.outcome = "suspended" THEN SmartResume(s, r.tried) ELSE r
SmartFinal(s) == SmartFinalOf(s, SmartRun(s))

\* The inputs smart() is run on: the bounded inputs and the one in the box.
TypedInputs == SmartInputs \cup {input}

\* C25: every terminal outcome after the ascii_hex step is reachable: some
\* input makes smart() end in binary, some in octal, some in rot13, some in
\* the undetermined result; the ascii_hex step fails on some input that
\* reaches it.
C25_LateOutcomesReachable ==
    /\ \A c \in {"binary", "octal", "rot13"} :
           \E s \in TypedInputs : SmartFinal(Trim(s)).codec = c
    /\ \E s \in TypedInputs : SmartFinal(Trim(s)).outcome = "undetermined"
    /\ \E s \in TypedInputs : LET r == SmartFinal(Trim(s))
                              IN  /\ \E i \in 1..Len(r.tried) : r.tried[i] = "ascii_hex"
                                  /\ r.codec # "ascii_hex"

\* C26: the formurl outcome of smart() is reachable: on some input with a
\* literal '+' and a %XX token the url step does not win and formurl is
\* declared.
C26_FormurlReachable ==
    \E s \in TypedInputs :
        /\ \E i \in 1..Len(s) : s[i] = 43
        /\ HasPercent(Trim(s))
        /\ SmartFinal(Trim(s)).codec = "formurl"

\* s decoded in one left-to-right pass from position i on, every escape
\* token read once: %uXXXX gives one code unit, %XX gives one code unit, and
\* a character produced by a substitution is not read again.
RECURSIVE EscapesOnce(_, _)
EscapesOnce(s, i) ==
    IF i > Len(s) THEN << >>
    ELSE IF IsPercentUAt(s, i)
         THEN FromCharCode(DigitsValue(SubSeq(s, i + 2, i + 5), 16)) \o EscapesOnce(s, i + 6)
    ELSE IF IsPercentAt(s, i)
         THEN FromCharCode(PercentValue(s, i)) \o EscapesOnce(s, i + 3)
    ELSE <<s[i]>> \o EscapesOnce(s, i + 1)

\* C27: a decode with url_u or js_escape reads each escape token of its
\* input exactly once: its output is the input with every %uXXXX and every
\* %XX token replaced by its character, a character produced from a %uXXXX
\* token never being read as part of a %XX escape ("%u002541" gives "%41").
C27_EscapesReadOnce ==
    (DecodeDone("url_u") \/ DecodeDone("js_escape")) =>
        /\ last.outcome = "success"
        /\ output = Text(EscapesOnce(last.s, 1))

\* C28: a decode with octal never wraps: for every token it accepts, the
\* byte produced is the token's numeric value, so that no accepted token
\* has a value above 255.
C28_OctalNoWrap ==
    (DecodeDone("octal") /\ last.outcome = "success") =>
        LET toks == SplitWhite(Trim(last.s)) IN
        /\ octalDecodeU8(last.s).ok
        /\ \A i \in 1..Len(toks) :
               /\ DigitsValue(toks[i], 8) <= 255
               /\ octalDecodeU8(last.s).val[i] = DigitsValue(toks[i], 8)

\* C29: at most one clear-timer is pending, and it is the one the last
\* show() armed; a message is cleared only by the timer of the most recent
\* show(); while the panel is mounted a message shown has its timer
\* pending; the unmounting cancels the pending timer; and every message is
\* eventually cleared unless the panel is unmounted.
C29_StatusLifetime ==
    /\ [](/\ Cardinality(statusTimer.armed) <= 1
          /\ statusTimer.armed \subseteq {statusTimer.ref}
          /\ (statusTimer.mounted /\ status # NoStatus) =>
                 statusTimer.armed = {statusTimer.ref})
    /\ [][/\ (status # NoStatus /\ status' = NoStatus) =>
                 (statusTimer.ref \in statusTimer.armed /\ statusTimer'.armed = {})
          /\ (statusTimer.mounted /\ ~statusTimer'.mounted) => statusTimer'.armed = {}]_vars
    /\ (status # NoStatus) ~> (status = NoStatus \/ ~statusTimer.mounted)

\* The panel was unmounted while the message of a second show() was up: no
\* timer is left pending.
C29_Witness ==
    /\ ~statusTimer.mounted
    /\ statusTimer.ref >= 2
    /\ status # NoStatus
    /\ statusTimer.armed = {}

\* The characters the user listed for exclusion, as the component on screen
\* reads the exclude field: the one-character pieces between commas in
\* generatePassword.tsx, every character of the field in Top.tsx.
Listed ==
    IF pw.impl = "page" THEN excludeSet(pw.exclude)
    ELSE {pw.exclude[i] : i \in 1..Len(pw.exclude)}

\* C30: for every combination of the switches and every exclude list, no
\* generated password holds a character listed for exclusion, also when the
\* exclusions remove every character of the selected classes.
C30_NoExcludedChar ==
    \A k \in 1..Len(pw.passwords) :
        \A i \in 1..Len(pw.passwords[k]) : pw.passwords[k][i] \notin Listed

====
